---- MODULE Spec2Model ----
(***************************************************************************)
(* Home battery calculator (src/script.js): the dispatch step              *)
(* runSingleTimeStep, the runner runSimulation, aggregateFinalResults,     *)
(* the size sweep runOptimizationAnalysis and the click handler            *)
(* runFullSimulation.                                                      *)
(*                                                                         *)
(* src/script.js holds two DOMContentLoaded closures, revision 2.0.0       *)
(* (lines 11-1489) and revision 2.5.0 (lines 1516-3319).  Each closure has *)
(* its own state and its own copy of every function; the variable          *)
(* `closure` says which of the two a behaviour follows.                    *)
(*                                                                         *)
(* Numbers.  JavaScript numbers are modelled as exact rationals on an      *)
(* integer grid: energy in Wh (1 kWh = 1000), power in W, so that          *)
(* FLOAT_TOLERANCE = 0.001 kWh is 1.  The one-way efficiency               *)
(* Math.sqrt(roundtripEfficiency) is a rational num/den, and the inputs    *)
(* are drawn so that every product and quotient of the code is exact.      *)
(* Floating point rounding is not modelled.                                *)
(***************************************************************************)
EXTENDS Integers, Sequences, FiniteSets, TLC

VARIABLES
    closure,                  \* "v200" or "v250": the closure the behaviour follows
    dom,                      \* the input fields of the page
    csvFile,                  \* the selected file: what parseHDF and filterLast12FullMonths make of it
    fullData,                 \* let fullData
    simulationResults,        \* let simulationResults
    isSimulating,             \* let isSimulating
    calculateBtnDisabled,     \* calculateBtn.disabled
    status,                   \* the text of the status element
    optimizationChartInstance, \* the data of the optimization chart
    pc,                       \* where runFullSimulation is suspended ("idle": not running)
    frame,                    \* the locals of the suspended runFullSimulation
    stepCall                  \* a direct call of runSingleTimeStep: its arguments and result

vars == <<closure, dom, csvFile, fullData, simulationResults, isSimulating,
          calculateBtnDisabled, status, optimizationChartInstance, pc, frame, stepCall>>

(***************************************************************************)
(* Constants of the program                                                *)
(***************************************************************************)
\* 1 / HOURS_PER_INTERVAL: HOURS_PER_INTERVAL = 0.5
IntervalsPerHour == 2
INTERVALS_PER_DAY == 24 * IntervalsPerHour
DAYS_IN_YEAR == 365
\* 0.001 kWh, in Wh
FLOAT_TOLERANCE == 1
\* Wh per kWh and W per kW: the grid the model's integers live on
KWH == 1000 * FLOAT_TOLERANCE

\* x * HOURS_PER_INTERVAL
TimesHours(x) == x \div IntervalsPerHour
\* x / HOURS_PER_INTERVAL
OverHours(x) == x * IntervalsPerHour

Min(a, b) == IF a <= b THEN a ELSE b
Max(a, b) == IF a >= b THEN a ELSE b
Min3(a, b, c) == Min(a, Min(b, c))

\* Math.sqrt on the perfect squares the model draws
ISqrt(n) == CHOOSE r \in 0..n : r * r = n
\* Math.sqrt(params.roundtripEfficiency), the efficiency being a rational
MathSqrt(q) == [num |-> ISqrt(q.num), den |-> ISqrt(q.den)]

\* a faulty x / efficiencySqrt: it multiplies
DivEffInverted(x, e) == (x * e.num) \div e.den

\* x * efficiencySqrt and x / efficiencySqrt
MulEff(x, e) == (x * e.num) \div e.den
DivEff(x, e) == (x * e.den) \div e.num

(***************************************************************************)
(* Timestamps: the number of half hours since 2023-01-01T00:00Z, within    *)
(* the year 2023.  The code reads a timestamp only through getUTCHours,    *)
(* getUTCMonth, getUTCDate and toISOString().slice(0, 7).                  *)
(***************************************************************************)
CumDays == <<0, 31, 59, 90, 120, 151, 181, 212, 243, 273, 304, 334, 365>>
DayOfYear(t) == t \div INTERVALS_PER_DAY
getUTCHours(t) == (t % INTERVALS_PER_DAY) \div IntervalsPerHour
getUTCMonth(t) ==
    CHOOSE m \in 0..11 : CumDays[m + 1] <= DayOfYear(t) /\ DayOfYear(t) < CumDays[m + 2]
getUTCDate(t) == DayOfYear(t) - CumDays[getUTCMonth(t) + 1] + 1
\* toISOString().slice(0, 7), "2023-06" as 202306
MonthKey(t) == 202300 + getUTCMonth(t) + 1
\* the timestamp of month (0-based), date, hour and half hour
TimeAt(month, date, hour, half) ==
    (CumDays[month + 1] + date - 1) * INTERVALS_PER_DAY + hour * IntervalsPerHour + half

(***************************************************************************)
(* runSingleTimeStep, revision 2.5.0                                       *)
(***************************************************************************)
isExportStrategy(params) ==
    params.strategy = "export-maximiser" \/ params.strategy = "balanced-export-maximiser"

isImportMinimiser(params) == params.strategy = "import-minimiser"

isForceChargeHour(params, hour) ==
    (isExportStrategy(params) \/ isImportMinimiser(params)) /\ params.forceChargeHours[hour]

\* a faulty pre-charge test: the window of two hours of revision 2.0.0
isPreChargeHourTwoHours(params, hour) ==
    IF isExportStrategy(params) /\ ~isForceChargeHour(params, hour)
    THEN params.forceChargeHours[(hour + 1) % 24] \/ params.forceChargeHours[(hour + 2) % 24]
    ELSE FALSE

\* lines 2405-2417
isPreChargeHour(params, hour) ==
    IF isExportStrategy(params) /\ ~isForceChargeHour(params, hour)
    THEN \/ params.forceChargeHours[(hour + 1) % 24]
         \/ params.forceChargeHours[(hour + 2) % 24]
         \/ params.forceChargeHours[(hour + 3) % 24]
         \/ params.forceChargeHours[(hour + 4) % 24]
    ELSE FALSE

isHeatingSeason(month) == month \in {0, 1, 10, 11}

\* a faulty step 2: the test of line 2428 without its negation
HomeDischargeInForceHours(remainingDemand, availableEnergyInBattery, params, efficiencySqrt, forceHour) ==
    LET dischargeForHome ==
            Min3(remainingDemand, MulEff(availableEnergyInBattery, efficiencySqrt),
                 TimesHours(params.maxDischargeRate))
    IN  IF forceHour /\ dischargeForHome > FLOAT_TOLERANCE THEN dischargeForHome ELSE 0

\* a faulty step 2: no test of the force-charge hour at all
HomeDischargeAlways(remainingDemand, availableEnergyInBattery, params, efficiencySqrt, forceHour) ==
    LET dischargeForHome ==
            Min3(remainingDemand, MulEff(availableEnergyInBattery, efficiencySqrt),
                 TimesHours(params.maxDischargeRate))
    IN  IF dischargeForHome > FLOAT_TOLERANCE THEN dischargeForHome ELSE 0

\* step 2: the usable energy the battery delivers to the home (0 when skipped)
HomeDischarge(remainingDemand, availableEnergyInBattery, params, efficiencySqrt, forceHour) ==
    LET dischargeForHome ==
            Min3(remainingDemand, MulEff(availableEnergyInBattery, efficiencySqrt),
                 TimesHours(params.maxDischargeRate))
    IN  IF ~forceHour /\ dischargeForHome > FLOAT_TOLERANCE THEN dischargeForHome ELSE 0

\* step 4, else branch: the solar energy sent to the battery (0 when skipped)
SolarCharge(excessSolar, spaceInBattery, params, efficiencySqrt) ==
    LET chargeFromSolar ==
            Min3(excessSolar, DivEff(spaceInBattery, efficiencySqrt),
                 TimesHours(params.maxChargeRate))
    IN  IF chargeFromSolar > FLOAT_TOLERANCE THEN chargeFromSolar ELSE 0

\* step 5a: the usable energy dumped on the grid (0 when skipped)
PreemptiveDischarge(gridExport, availableEnergyInBattery, params, efficiencySqrt) ==
    LET energyToDischarge ==
            Min(MulEff(availableEnergyInBattery, efficiencySqrt),
                TimesHours(params.maxDischargeRate))
        currentExportPower == OverHours(gridExport)
        availableExportCapacity == params.mec - currentExportPower
        finalDischarge == Min(energyToDischarge, TimesHours(availableExportCapacity))
    IN  IF finalDischarge > FLOAT_TOLERANCE THEN finalDischarge ELSE 0

\* a faulty step 5b: the home's import is not taken off the Maximum Import
\* Capacity
ForceChargeUpToMic(remainingDemand, spaceInBattery, params, efficiencySqrt) ==
    LET chargePower == Min(params.maxChargeRate, params.mic)
        energyToCharge ==
            Min(Max(0, TimesHours(chargePower)), DivEff(spaceInBattery, efficiencySqrt))
    IN  IF energyToCharge > FLOAT_TOLERANCE THEN energyToCharge ELSE 0

\* a faulty step 5b: the charge power is not limited by what the home leaves
\* of the Maximum Import Capacity
ForceChargeIgnoringMic(remainingDemand, spaceInBattery, params, efficiencySqrt) ==
    LET energyToCharge ==
            Min(Max(0, TimesHours(params.maxChargeRate)), DivEff(spaceInBattery, efficiencySqrt))
    IN  IF energyToCharge > FLOAT_TOLERANCE THEN energyToCharge ELSE 0

\* step 5b: the energy charged from the grid (0 when skipped)
ForceCharge(remainingDemand, spaceInBattery, params, efficiencySqrt) ==
    LET homeImportPower == OverHours(remainingDemand)
        availableGridPowerForCharge == params.mic - homeImportPower
        chargePower == Min(params.maxChargeRate, availableGridPowerForCharge)
        energyToCharge ==
            Min(Max(0, TimesHours(chargePower)), DivEff(spaceInBattery, efficiencySqrt))
    IN  IF energyToCharge > FLOAT_TOLERANCE THEN energyToCharge ELSE 0

\* a faulty step 6: no clipping
NoClipping(gridExport, params) == gridExport

\* step 6: the final clipping to the Maximum Export Capacity
ClipExport(gridExport, params) ==
    IF OverHours(gridExport) > params.mec THEN TimesHours(params.mec) ELSE gridExport

\* a faulty step 1: the demand is not reduced by the solar energy used
DemandBeforeSolar(row) == row.consumption

\* a faulty step 1: the solar left over is not reduced by the solar energy
\* the home uses
ExcessSolarWhole(row) == row.generation

\* step 1: the solar energy the home uses, the demand and the solar left over
selfConsumptionFromSolar(row) == Min(row.consumption, row.generation)
DemandAfterSolar(row) == row.consumption - selfConsumptionFromSolar(row)
ExcessSolar(row) == row.generation - selfConsumptionFromSolar(row)

\* a faulty line 2491: the flag is set inside the test of line 2499
FlagSetWhenCharged(flag, fires5b, energyToCharge) ==
    flag \/ (fires5b /\ energyToCharge > FLOAT_TOLERANCE)

\* line 2491: the flag is set on entering step 5b, before energyToCharge is
\* computed and tested
newForceChargeScheduledToday(flag, fires5b, energyToCharge) == flag \/ fires5b

\* the return statement.  The result record carries, next to the six fields
\* the code returns, the locals the properties speak of: selfUse,
\* homeDischarge (step 2), solarCharge (step 4), gridDischarge (step 5a),
\* gridCharge (step 5b) and the export before step 6.
StepResult(row, currentSoC, params, efficiencySqrt, flag, fires5b, home, solar, dump, grid) ==
    [gridImport |-> DemandAfterSolar(row) - home + grid,
     gridExport |-> ClipExport(ExcessSolar(row) - solar + dump, params),
     toBattery |-> solar + grid,
     fromBattery |-> DivEff(home, efficiencySqrt) + DivEff(dump, efficiencySqrt),
     newSoC |-> currentSoC - DivEff(home, efficiencySqrt) + MulEff(solar, efficiencySqrt)
                - DivEff(dump, efficiencySqrt) + MulEff(grid, efficiencySqrt),
     newForceChargeScheduledToday |-> newForceChargeScheduledToday(flag, fires5b, grid),
     selfUse |-> selfConsumptionFromSolar(row),
     homeDischarge |-> home,
     solarCharge |-> solar,
     gridDischarge |-> dump,
     gridCharge |-> grid,
     exportBeforeClip |-> ExcessSolar(row) - solar + dump]

\* steps 5a and 5b, which read the export of step 4, the demand left by
\* step 2, and the battery's energy and space as they were before step 2
Step5(row, currentSoC, params, efficiencySqrt, flag, availableEnergyInBattery, spaceInBattery, dumps, fires5b, home, solar) ==
    StepResult(row, currentSoC, params, efficiencySqrt, flag, fires5b, home, solar,
        IF dumps
        THEN PreemptiveDischarge(ExcessSolar(row) - solar, availableEnergyInBattery,
                                 params, efficiencySqrt)
        ELSE 0,
        IF fires5b
        THEN ForceCharge(DemandAfterSolar(row) - home, spaceInBattery, params, efficiencySqrt)
        ELSE 0)

\* steps 1 to 4, then the rest.  storesSolar: step 4 takes its else branch;
\* dumps: step 5a is reached; fires5b: step 5b is reached
Dispatch(row, currentSoC, params, efficiencySqrt, flag, availableEnergyInBattery, spaceInBattery, forceHour, storesSolar, dumps, fires5b) ==
    Step5(row, currentSoC, params, efficiencySqrt, flag, availableEnergyInBattery,
          spaceInBattery, dumps, fires5b,
          HomeDischarge(DemandAfterSolar(row), availableEnergyInBattery, params,
                        efficiencySqrt, forceHour),
          IF ExcessSolar(row) > 0 /\ storesSolar
          THEN SolarCharge(ExcessSolar(row), spaceInBattery, params, efficiencySqrt)
          ELSE 0)

\* a faulty test of line 2470: the pre-emptive discharge is never skipped
skipPreemptiveDischargeNever(params, month) == FALSE

skipPreemptiveDischarge(params, month) ==
    params.strategy = "balanced-export-maximiser" /\ isHeatingSeason(month)

runSingleTimeStep(row, currentSoC, params, minSoC_kWh, maxSoC_kWh, efficiencySqrt, forceChargeScheduledToday) ==
    Dispatch(row, currentSoC, params, efficiencySqrt, forceChargeScheduledToday,
        Max(0, currentSoC - minSoC_kWh),
        Max(0, maxSoC_kWh - currentSoC),
        isForceChargeHour(params, getUTCHours(row.timestamp)),
        ~(isExportStrategy(params) /\ isPreChargeHour(params, getUTCHours(row.timestamp))),
        /\ isExportStrategy(params) \/ isImportMinimiser(params)
        /\ isPreChargeHour(params, getUTCHours(row.timestamp))
        /\ ~skipPreemptiveDischarge(params, getUTCMonth(row.timestamp)),
        /\ isExportStrategy(params) \/ isImportMinimiser(params)
        /\ isForceChargeHour(params, getUTCHours(row.timestamp)))

(***************************************************************************)
(* runSingleTimeStep, revision 2.0.0: two strategies, solar is stored only *)
(* under self-consumption, and the pre-charge window is two hours.  Steps  *)
(* 1, 2, 3, 5a, 5b and 6 read as in revision 2.5.0.                        *)
(***************************************************************************)
isForceChargeHour_v200(params, hour) ==
    params.strategy = "export-maximiser" /\ params.forceChargeHours[hour]

isPreChargeHour_v200(params, hour) ==
    /\ ~isForceChargeHour_v200(params, hour)
    /\ (params.forceChargeHours[(hour + 1) % 24] \/ params.forceChargeHours[(hour + 2) % 24])

runSingleTimeStep_v200(row, currentSoC, params, minSoC_kWh, maxSoC_kWh, efficiencySqrt, forceChargeScheduledToday) ==
    Dispatch(row, currentSoC, params, efficiencySqrt, forceChargeScheduledToday,
        Max(0, currentSoC - minSoC_kWh),
        Max(0, maxSoC_kWh - currentSoC),
        isForceChargeHour_v200(params, getUTCHours(row.timestamp)),
        params.strategy = "self-consumption",
        /\ params.strategy = "export-maximiser"
        /\ isPreChargeHour_v200(params, getUTCHours(row.timestamp)),
        /\ params.strategy = "export-maximiser"
        /\ isForceChargeHour_v200(params, getUTCHours(row.timestamp)))

\* the step function of a closure
StepOf(c, row, currentSoC, params, minSoC_kWh, maxSoC_kWh, efficiencySqrt, flag) ==
    IF c = "v200"
    THEN runSingleTimeStep_v200(row, currentSoC, params, minSoC_kWh, maxSoC_kWh, efficiencySqrt, flag)
    ELSE runSingleTimeStep(row, currentSoC, params, minSoC_kWh, maxSoC_kWh, efficiencySqrt, flag)

(***************************************************************************)
(* runSimulation: the loop over the readings.  data is a sequence of       *)
(* readings [timestamp, consumption, generation].  The progress update and *)
(* the yield of lines 2313-2316 need i > 0 and i % 1000 = 0: no dataset of *)
(* the model is that long, so a call runs from start to end without        *)
(* suspension.                                                             *)
(***************************************************************************)
NewMonth ==
    [costWithoutBattery |-> 0, costWithBattery |-> 0, exportRevenue |-> 0, savings |-> 0,
     importWithoutBattery |-> 0, importWithBattery |-> 0, exportWithBattery |-> 0,
     consumption |-> 0, generation |-> 0, chargedToBattery |-> 0,
     dischargedFromBattery |-> 0, missedFullCharges |-> 0]

minSoCOf(params) == (params.usableCapacity * params.minSoc) \div 100
maxSoCOf(params) == (params.usableCapacity * params.maxSoc) \div 100

\* the locals of the loop before its first iteration
SimStart(params) ==
    [batterySoC |-> minSoCOf(params),
     dailyMaxSoC |-> minSoCOf(params),
     forceChargeScheduledToday |-> FALSE,
     monthlyData |-> << >>,
     detailedLog |-> << >>]

\* lines 2318-2321: the accumulator of the reading's month
EnsureMonth(st, mKey) ==
    IF mKey \in DOMAIN st.monthlyData
    THEN st
    ELSE [st EXCEPT !.monthlyData =
             [k \in DOMAIN st.monthlyData \cup {mKey} |->
                 IF k = mKey THEN NewMonth ELSE st.monthlyData[k]]]

\* the day rollover test of line 2324, for the reading data[i] (i from 1)
DayChanged(data, i) ==
    i > 1 /\ getUTCDate(data[i].timestamp) # getUTCDate(data[i - 1].timestamp)

\* the missed-full-charge test of line 2326: dailyMaxSoC < maxSoC_kWh * 0.99
MissedFullCharge(st, maxSoC_kWh) ==
    st.forceChargeScheduledToday /\ st.dailyMaxSoC * 100 < maxSoC_kWh * 99

\* lines 2323-2333: the day rollover
DayRollover(st, data, i, params) ==
    IF DayChanged(data, i)
    THEN [st EXCEPT
            !.monthlyData =
                IF /\ MissedFullCharge(st, maxSoCOf(params))
                   /\ MonthKey(data[i - 1].timestamp) \in DOMAIN st.monthlyData
                THEN [@ EXCEPT ![MonthKey(data[i - 1].timestamp)].missedFullCharges = @ + 1]
                ELSE @,
            !.dailyMaxSoC = st.batterySoC,
            !.forceChargeScheduledToday = FALSE]
    ELSE st

\* lines 2343-2356: the month's totals
AddToMonth(m, row, params, result) ==
    [m EXCEPT
       !.consumption = @ + row.consumption,
       !.generation = @ + row.generation,
       !.importWithBattery = @ + result.gridImport,
       !.exportWithBattery = @ + result.gridExport,
       !.chargedToBattery = @ + result.toBattery,
       !.dischargedFromBattery = @ + result.fromBattery,
       !.costWithBattery = @ + result.gridImport * params.importPrices[getUTCHours(row.timestamp)],
       !.exportRevenue = @ + result.gridExport * params.exportPrices[getUTCHours(row.timestamp)],
       !.costWithoutBattery =
           @ + Max(0, row.consumption - row.generation) * params.importPrices[getUTCHours(row.timestamp)],
       !.importWithoutBattery = @ + Max(0, row.consumption - row.generation)]

\* a faulty log entry: consumption and generation change places
LogEntrySwapped(row, result) ==
    [timestamp |-> row.timestamp,
     consumption |-> row.generation,
     generation |-> row.consumption,
     gridImport |-> result.gridImport,
     gridExport |-> result.gridExport,
     batteryCharge |-> result.toBattery,
     batteryDischarge |-> result.fromBattery,
     batterySoC |-> result.newSoC]

\* lines 2358-2367
LogEntry(row, result) ==
    [timestamp |-> row.timestamp,
     consumption |-> row.consumption,
     generation |-> row.generation,
     gridImport |-> result.gridImport,
     gridExport |-> result.gridExport,
     batteryCharge |-> result.toBattery,
     batteryDischarge |-> result.fromBattery,
     batterySoC |-> result.newSoC]

\* lines 2338-2371: the state, the totals, the log and the daily peak
Accumulate(st, row, params, result) ==
    [batterySoC |-> result.newSoC,
     dailyMaxSoC |-> IF result.newForceChargeScheduledToday
                     THEN Max(st.dailyMaxSoC, result.newSoC) ELSE st.dailyMaxSoC,
     forceChargeScheduledToday |-> result.newForceChargeScheduledToday,
     monthlyData |-> [st.monthlyData EXCEPT
                         ![MonthKey(row.timestamp)] = AddToMonth(@, row, params, result)],
     detailedLog |-> Append(st.detailedLog, LogEntry(row, result))]

\* line 2336: the dispatch step, on the locals after the day rollover
StepAndAccumulate(c, st, row, params) ==
    Accumulate(st, row, params,
        StepOf(c, row, st.batterySoC, params, minSoCOf(params), maxSoCOf(params),
               MathSqrt(params.roundtripEfficiency), st.forceChargeScheduledToday))

\* one iteration of the loop, for the reading data[i] (i from 1)
SimIteration(c, st, data, i, params) ==
    StepAndAccumulate(c,
        DayRollover(EnsureMonth(st, MonthKey(data[i].timestamp)), data, i, params),
        data[i], params)

\* the locals of the loop after the first n readings
RECURSIVE SimLoop(_, _, _, _)
SimLoop(c, data, n, params) ==
    IF n = 0 THEN SimStart(params)
    ELSE SimIteration(c, SimLoop(c, data, n - 1, params), data, n, params)

(***************************************************************************)
(* aggregateFinalResults.  A rational is a record [num, den]; Infinity is  *)
(* 1/0.  The annual figures are exact as long as dataLength divides        *)
(* DAYS_IN_YEAR * INTERVALS_PER_DAY = 17520, which 1..6 do.                *)
(***************************************************************************)
Infinity == [num |-> 1, den |-> 0]
Zero == [num |-> 0, den |-> 1]

RECURSIVE SumOver(_, _)
SumOver(f, S) ==
    IF S = {} THEN 0
    ELSE LET k == CHOOSE x \in S : TRUE IN f[k] + SumOver(f, S \ {k})

\* x * scalingFactor, scalingFactor = daysInData > 0 ? DAYS_IN_YEAR / daysInData : 1
\* a faulty scaling factor: the intervals taken for days
AnnualizeByDays(x, dataLength) ==
    IF dataLength > 0 THEN (x * DAYS_IN_YEAR) \div dataLength ELSE x

Annualize(x, dataLength) ==
    IF dataLength > 0 THEN (x * DAYS_IN_YEAR * INTERVALS_PER_DAY) \div dataLength ELSE x

\* a faulty month total: the savings are added to the field
MonthSavingsAdded(m) == m.savings + m.costWithoutBattery - (m.costWithBattery - m.exportRevenue)

\* line 2532
MonthSavings(m) == m.costWithoutBattery - (m.costWithBattery - m.exportRevenue)

\* line 2532: every month's savings field is set
FinalizeMonths(monthlyData) ==
    [k \in DOMAIN monthlyData |-> [monthlyData[k] EXCEPT !.savings = MonthSavings(monthlyData[k])]]

\* a faulty payback period: the division without the test of line 2548
PaybackUnguarded(systemCost, annualSavings) == [num |-> systemCost, den |-> annualSavings]

\* a faulty payback period: any annual savings but zero pass the test
PaybackNonZero(systemCost, annualSavings) ==
    IF systemCost > 0 /\ annualSavings # 0
    THEN [num |-> systemCost, den |-> annualSavings]
    ELSE Infinity

PaybackPeriod(systemCost, annualSavings) ==
    IF systemCost > 0 /\ annualSavings > 0
    THEN [num |-> systemCost, den |-> annualSavings]
    ELSE Infinity

\* a faulty self-sufficiency: the import ratio less one
SelfSufficiencyInverted(totalConsumption, totalImportWithBattery) ==
    IF totalConsumption > 0
    THEN [num |-> (totalImportWithBattery - totalConsumption) * 100, den |-> totalConsumption]
    ELSE Zero

\* line 2549
SelfSufficiency(totalConsumption, totalImportWithBattery) ==
    IF totalConsumption > 0
    THEN [num |-> (totalConsumption - totalImportWithBattery) * 100, den |-> totalConsumption]
    ELSE Zero

TotalSavings(fin) == SumOver([k \in DOMAIN fin |-> fin[k].savings], DOMAIN fin)
TotalBillBefore(fin) == SumOver([k \in DOMAIN fin |-> fin[k].costWithoutBattery], DOMAIN fin)
TotalBillAfter(fin) ==
    SumOver([k \in DOMAIN fin |-> fin[k].costWithBattery - fin[k].exportRevenue], DOMAIN fin)
TotalConsumption(fin) == SumOver([k \in DOMAIN fin |-> fin[k].consumption], DOMAIN fin)
TotalImportWithBattery(fin) == SumOver([k \in DOMAIN fin |-> fin[k].importWithBattery], DOMAIN fin)
TotalExportWithBattery(fin) == SumOver([k \in DOMAIN fin |-> fin[k].exportWithBattery], DOMAIN fin)

\* lines 2541-2556, fin being the months with their savings set
AnnualResults(fin, detailedLog, dataLength, params) ==
    [annualSavings |-> Annualize(TotalSavings(fin), dataLength),
     paybackPeriod |-> PaybackPeriod(params.systemCost, Annualize(TotalSavings(fin), dataLength)),
     selfSufficiency |-> SelfSufficiency(TotalConsumption(fin), TotalImportWithBattery(fin)),
     annualBillBefore |-> Annualize(TotalBillBefore(fin), dataLength),
     annualBillAfter |-> Annualize(TotalBillAfter(fin), dataLength),
     annualImportAfter |-> Annualize(TotalImportWithBattery(fin), dataLength),
     annualExportAfter |-> Annualize(TotalExportWithBattery(fin), dataLength),
     monthlyData |-> fin,
     detailedLog |-> detailedLog]

aggregateFinalResults(monthlyData, detailedLog, dataLength, params) ==
    AnnualResults(FinalizeMonths(monthlyData), detailedLog, dataLength, params)

\* line 2374, st being the locals after the loop
ReturnOf(st, dataLength, params) ==
    aggregateFinalResults(st.monthlyData, st.detailedLog, dataLength, params)

runSimulation(c, data, params) ==
    ReturnOf(SimLoop(c, data, Len(data), params), Len(data), params)

(***************************************************************************)
(* getSimulationParameters.  Prices are in cent per kWh, so money is in    *)
(* cent * Wh / kWh; systemCost is brought to that grid.                    *)
(***************************************************************************)
MoneyPerEuro == 100 * KWH

getSimulationParameters(d) ==
    [batteryCapacity |-> d.batterySize,
     usableCapacity |-> (d.batterySize * KWH * d.usableCapacity) \div 100,
     minSoc |-> d.minSoc,
     maxSoc |-> d.maxSoc,
     maxChargeRate |-> d.chargeRate,
     maxDischargeRate |-> d.chargeRate,
     roundtripEfficiency |-> [num |-> d.roundtripEfficiency, den |-> 100],
     systemCost |-> d.systemCost * MoneyPerEuro,
     strategy |-> d.strategy,
     dataSource |-> d.dataSource,
     mic |-> d.mic,
     mec |-> d.mec,
     importPrices |-> [h \in 0..23 |->
                          IF d.importTariffType = "hourly" THEN d.importRate[h] ELSE d.importPrice],
     exportPrices |-> [h \in 0..23 |->
                          IF d.exportTariffType = "hourly" THEN d.exportRate[h] ELSE d.exportPrice],
     forceChargeHours |-> d.forceCharge]

hasForceChargeHours(params) == \E h \in 0..23 : params.forceChargeHours[h]

\* a faulty validation: the test of revision 2.0.0 in both revisions
requiresForceChargeOnlyEM(c, params) == params.strategy = "export-maximiser"

\* the validation of lines 2075-2076 (revision 2.5.0) and 557 (revision 2.0.0)
requiresForceCharge(c, params) ==
    IF c = "v200"
    THEN params.strategy = "export-maximiser"
    ELSE params.strategy \in {"export-maximiser", "balanced-export-maximiser", "import-minimiser"}

\* the message of line 2077 (revision 2.5.0) and of line 558 (revision 2.0.0)
ForceChargeError(c, params) ==
    IF c = "v200"
    THEN "Error: For the Export Maximiser strategy, you must select at least one hour for Force Charging."
    ELSE "Error: For the " \o params.strategy
             \o " strategy, you must select at least one hour for Force Charging."

(***************************************************************************)
(* runOptimizationAnalysis                                                 *)
(***************************************************************************)
SizeLadder == <<5, 10, 15, 20, 25, 30, 35, 40>>

SeqToSet(q) == {q[i] : i \in DOMAIN q}

\* push and sort((a, b) => a - b)
RECURSIVE SortedInsert(_, _)
SortedInsert(q, x) ==
    IF q = << >> THEN <<x>>
    ELSE IF x <= Head(q) THEN <<x>> \o q
    ELSE <<Head(q)>> \o SortedInsert(Tail(q), x)

sizesToTest(baseParams) ==
    IF baseParams.batteryCapacity \in SeqToSet(SizeLadder)
    THEN SizeLadder
    ELSE SortedInsert(SizeLadder, baseParams.batteryCapacity)

\* a faulty rescaling: the usable capacity shrinks as the size grows
commonParamsShrinking(baseParams, size, usableCapacityField) ==
    [baseParams EXCEPT !.batteryCapacity = size,
                       !.usableCapacity = ((45 - size) * KWH * usableCapacityField) \div 100]

\* lines 2582-2584: the usable capacity is rescaled with the percentage the
\* usableCapacity field holds when the line runs
commonParams(baseParams, size, usableCapacityField) ==
    [baseParams EXCEPT !.batteryCapacity = size,
                       !.usableCapacity = (size * KWH * usableCapacityField) \div 100]

SweepStrategy(c, data, baseParams, strategy, usableCapacityField) ==
    LET sizes == sizesToTest(baseParams)
    IN  [i \in DOMAIN sizes |->
            [size |-> sizes[i],
             savings |-> runSimulation(c, data,
                            [commonParams(baseParams, sizes[i], usableCapacityField)
                                EXCEPT !.strategy = strategy]).annualSavings]]

runOptimizationAnalysis(c, data, baseParams, usableCapacityField) ==
    IF c = "v200"
    THEN SweepStrategy(c, data, baseParams, baseParams.strategy, usableCapacityField)
    ELSE [selfConsumptionResults |->
              SweepStrategy(c, data, baseParams, "self-consumption", usableCapacityField),
          exportMaximiserResults |->
              SweepStrategy(c, data, baseParams, "export-maximiser", usableCapacityField),
          balancedExportMaximiserResults |->
              SweepStrategy(c, data, baseParams, "balanced-export-maximiser", usableCapacityField),
          importMinimiserResults |->
              SweepStrategy(c, data, baseParams, "import-minimiser", usableCapacityField),
          sizes |-> sizesToTest(baseParams)]

(***************************************************************************)
(* The inputs of the model                                                 *)
(***************************************************************************)
\* the longest dataset
MaxLen == 2
\* the number of battery levels, above the lower limit, a direct call of
\* runSingleTimeStep starts from (the upper limit is always one of them)
SocSteps == 2

Closures == {"v200", "v250"}

StrategiesOf(c) ==
    IF c = "v200"
    THEN {"self-consumption", "export-maximiser"}
    ELSE {"self-consumption", "export-maximiser", "balanced-export-maximiser", "import-minimiser"}

\* force-charge masks: no hour, and 05:00-05:59
NoMask == [h \in 0..23 |-> FALSE]
Mask5 == [h \in 0..23 |-> h = 5]

\* tariffs: a cheap import rate in the force-charge hour
CheapAtFive == [h \in 0..23 |-> IF h = 5 THEN 1 ELSE 5]
FlatRate == [h \in 0..23 |-> 0]

\* the fields of the page the handlers read; batterySize in kWh, chargeRate,
\* mic and mec in W, prices in cent per kWh, percentages as entered
DomOf(strategy, mask, eff, tariff, minSoc, maxSoc, chargeRate, mic, mec) ==
    [batterySize |-> 10,
     usableCapacity |-> 10,
     minSoc |-> minSoc,
     maxSoc |-> maxSoc,
     chargeRate |-> chargeRate,
     roundtripEfficiency |-> eff,
     systemCost |-> 8000,
     strategy |-> strategy,
     dataSource |-> "hdf",
     mic |-> mic,
     mec |-> mec,
     importTariffType |-> IF tariff = 1 THEN "hourly" ELSE "flat",
     importPrice |-> 4,
     importRate |-> CheapAtFive,
     exportTariffType |-> "flat",
     exportPrice |-> IF tariff = 1 THEN 2 ELSE 0,
     exportRate |-> FlatRate,
     forceCharge |-> mask]

\* fields with the minimum state of charge above the maximum
InvalidDoms ==
    {DomOf("self-consumption", m, 100, 1, 80, 20, 5000, 12000, 6000) : m \in {NoMask, Mask5}}

Doms(c) ==
    {DomOf(s, m, e, t, 10, 100, 5000, 12000, 6000) :
        s \in StrategiesOf(c), m \in {NoMask, Mask5}, e \in {100, 25}, t \in {1, 2}}
    \cup InvalidDoms

\* the percentages the usableCapacity field can hold
UsablePercents == {10, 20}

\* the instants of the readings: a pre-charge hour, a force-charge hour and
\* an ordinary hour of 1 January, and a pre-charge hour of 1 June
Instants == {TimeAt(0, 1, 4, 0), TimeAt(0, 1, 5, 0), TimeAt(0, 1, 12, 1), TimeAt(5, 1, 4, 0)}

\* consumption and generation of a reading, in Wh
Energies == {<<0, 0>>, <<400, 0>>, <<400, 2000>>}

Reading(t, cg) == [timestamp |-> t, consumption |-> cg[1], generation |-> cg[2]]

\* the datasets: readings in ascending order of time, no timestamp twice
DatasetsOver(instants) ==
    UNION {
        {[i \in 1..n |-> Reading(ts[i], cg[i])] :
            ts \in {q \in [1..n -> instants] : \A i \in 1..n - 1 : q[i] < q[i + 1]},
            cg \in [1..n -> Energies]}
        : n \in 0..MaxLen}

Datasets == DatasetsOver(Instants)

\* the selected file: none, one parseHDF finds no row in, or one with rows
\* (rows: what filterLast12FullMonths keeps of them)
Files ==
    {[kind |-> "none", rows |-> << >>], [kind |-> "unparsable", rows |-> << >>]}
    \cup {[kind |-> "data", rows |-> d] : d \in Datasets}

NoFrame == [params |-> << >>, resultsSC |-> << >>, resultsEM |-> << >>, resultsBEM |-> << >>]
NoCall == [phase |-> "none"]

(***************************************************************************)
(* The page after initialize(), and the click handler runFullSimulation,   *)
(* one action for each stretch of code between two yields to the browser.  *)
(* The PVGIS branch (dataSource = "pvgis") is not modelled.                *)
(***************************************************************************)
Init ==
    /\ closure \in Closures
    /\ dom \in Doms(closure)
    /\ csvFile \in Files
    /\ fullData = << >>
    /\ simulationResults = << >>
    /\ isSimulating = FALSE
    /\ calculateBtnDisabled = FALSE
    /\ status = ""
    /\ optimizationChartInstance = << >>
    /\ pc = "idle"
    /\ frame = NoFrame
    /\ stepCall = NoCall

\* a faulty finally block: the button is enabled, the flag is left as it is
FinallyLeavesFlag ==
    /\ isSimulating' = isSimulating
    /\ calculateBtnDisabled' = FALSE
    /\ pc' = "idle"
    /\ frame' = NoFrame

\* the finally block
Finally ==
    /\ isSimulating' = FALSE
    /\ calculateBtnDisabled' = FALSE
    /\ pc' = "idle"
    /\ frame' = NoFrame

\* a click on calculateBtn: from the entry to the first yield
Click ==
    /\ pc = "idle"
    /\ ~isSimulating
    /\ LET params == getSimulationParameters(dom)
       IN  IF requiresForceCharge(closure, params) /\ ~hasForceChargeHours(params)
           THEN /\ status' = ForceChargeError(closure, params)
                /\ UNCHANGED <<isSimulating, calculateBtnDisabled, pc, frame>>
           ELSE IF csvFile.kind = "none"
           THEN /\ status' = "Error: Please select a CSV data file."
                /\ Finally
           ELSE /\ status' = "Reading and parsing your HDF data file..."
                /\ isSimulating' = TRUE
                /\ calculateBtnDisabled' = TRUE
                /\ pc' = "read"
                /\ frame' = [NoFrame EXCEPT !.params = params]
    /\ UNCHANGED <<closure, dom, csvFile, fullData, simulationResults,
                   optimizationChartInstance, stepCall>>

\* the user edits the usableCapacity field while a simulation runs: the page
\* does not lock its fields, so the input event can fall at any yield of the
\* handler.  (Edits between two simulations, and edits once the page has
\* drawn its first chart, are not modelled.)
EditUsableCapacity ==
    /\ isSimulating
    /\ optimizationChartInstance = << >>
    /\ \E v \in UsablePercents \ {dom.usableCapacity} :
           dom' = [dom EXCEPT !.usableCapacity = v]
    /\ UNCHANGED <<closure, csvFile, fullData, simulationResults, isSimulating,
                   calculateBtnDisabled, status, optimizationChartInstance, pc, frame, stepCall>>

\* a click while a simulation runs returns at once
ClickWhileSimulating ==
    /\ isSimulating
    /\ UNCHANGED vars

uniqueMonths(data) == Cardinality({MonthKey(data[i].timestamp) : i \in DOMAIN data})

\* parse and filter the file, up to the yield of line 2137
ReadFile ==
    /\ pc = "read"
    /\ IF csvFile.kind = "unparsable"
       THEN /\ status' = "Error: No valid data rows were parsed from the HDF file."
            /\ Finally
            /\ UNCHANGED fullData
       ELSE /\ fullData' = csvFile.rows
            /\ IF Len(csvFile.rows) = 0
               THEN /\ status' = "Error: No data found within the last 12 full months."
                    /\ Finally
               ELSE /\ status' = IF uniqueMonths(csvFile.rows) < 12
                                 THEN "Warning: Annual figures will be an extrapolation."
                                 ELSE "Data processed successfully. Running simulation..."
                    /\ pc' = "start"
                    /\ UNCHANGED <<isSimulating, calculateBtnDisabled, frame>>
    /\ UNCHANGED <<closure, dom, csvFile, simulationResults, optimizationChartInstance, stepCall>>

StartRuns ==
    /\ pc = "start"
    /\ status' = "Running Self-Consumption simulation..."
    /\ pc' = "runSC"
    /\ UNCHANGED <<closure, dom, csvFile, fullData, simulationResults, isSimulating,
                   calculateBtnDisabled, optimizationChartInstance, frame, stepCall>>

RunWith(strategy) ==
    runSimulation(closure, fullData, [frame.params EXCEPT !.strategy = strategy])

RunSC ==
    /\ pc = "runSC"
    /\ frame' = [frame EXCEPT !.resultsSC = RunWith("self-consumption")]
    /\ status' = "Running Export Maximiser simulation..."
    /\ pc' = "runEM"
    /\ UNCHANGED <<closure, dom, csvFile, fullData, simulationResults, isSimulating,
                   calculateBtnDisabled, optimizationChartInstance, stepCall>>

\* revision 2.0.0 stores the two results here and goes on to the sweep
RunEM ==
    /\ pc = "runEM"
    /\ IF closure = "v200"
       THEN /\ simulationResults' = [selfConsumption |-> frame.resultsSC,
                                     exportMaximiser |-> RunWith("export-maximiser")]
            /\ status' = "Running optimization analysis for different battery sizes..."
            /\ pc' = "sweep"
            /\ UNCHANGED frame
       ELSE /\ frame' = [frame EXCEPT !.resultsEM = RunWith("export-maximiser")]
            /\ status' = "Running Balanced Export Maximiser simulation..."
            /\ pc' = "runBEM"
            /\ UNCHANGED simulationResults
    /\ UNCHANGED <<closure, dom, csvFile, fullData, isSimulating, calculateBtnDisabled,
                   optimizationChartInstance, stepCall>>

RunBEM ==
    /\ pc = "runBEM"
    /\ frame' = [frame EXCEPT !.resultsBEM = RunWith("balanced-export-maximiser")]
    /\ status' = "Running Import Minimiser simulation..."
    /\ pc' = "runIM"
    /\ UNCHANGED <<closure, dom, csvFile, fullData, simulationResults, isSimulating,
                   calculateBtnDisabled, optimizationChartInstance, stepCall>>

RunIM ==
    /\ pc = "runIM"
    /\ simulationResults' = [selfConsumption |-> frame.resultsSC,
                             exportMaximiser |-> frame.resultsEM,
                             balancedExportMaximiser |-> frame.resultsBEM,
                             importMinimiser |-> RunWith("import-minimiser")]
    /\ status' = "Running optimization analysis for different battery sizes..."
    /\ pc' = "sweep"
    /\ UNCHANGED <<closure, dom, csvFile, fullData, isSimulating, calculateBtnDisabled,
                   optimizationChartInstance, frame, stepCall>>

\* runOptimizationAnalysis, generateOptimizationChart and the finally block
Sweep ==
    /\ pc = "sweep"
    /\ optimizationChartInstance' =
           [data |-> runOptimizationAnalysis(closure, fullData, frame.params, dom.usableCapacity),
            userSelectedSize |-> frame.params.batteryCapacity]
    /\ status' = "Simulation and analysis complete! Results are shown below."
    /\ Finally
    /\ UNCHANGED <<closure, dom, csvFile, fullData, simulationResults, stepCall>>

Next ==
    \/ Click
    \/ ClickWhileSimulating
    \/ EditUsableCapacity
    \/ ReadFile
    \/ StartRuns
    \/ RunSC
    \/ RunEM
    \/ RunBEM
    \/ RunIM
    \/ Sweep

Spec == Init /\ [][Next]_vars

\* the positions of the handler: idle, and one for each await it can be
\* suspended at
HandlerPositions == {"idle", "read", "start", "runSC", "runEM", "runBEM", "runIM", "sweep"}

\* the event loop resumes a suspended handler: each await of
\* runFullSimulation is on yieldToBrowser (setTimeout(resolve, 0), line 2051)
\* or on a promise of the handler's own calls, so the handler leaves the
\* position it is suspended at.  Under [][Next]_vars the steps that change pc
\* are the steps ReadFile, StartRuns, RunSC, RunEM, RunBEM, RunIM and Sweep.
HandlerResumes ==
    /\ pc # "idle"
    /\ pc' \in HandlerPositions
    /\ pc' # pc

\* the pages and files the fair specification starts from: every strategy
\* with and without a force-charge hour, and files of readings at 04:00 and
\* 05:00 of 1 January
FairDoms(c) ==
    {DomOf(s, m, 100, 1, 10, 100, 5000, 12000, 6000) :
        s \in StrategiesOf(c), m \in {NoMask, Mask5}}

FairFiles ==
    {[kind |-> "none", rows |-> << >>], [kind |-> "unparsable", rows |-> << >>]}
    \cup {[kind |-> "data", rows |-> d] :
              d \in DatasetsOver({TimeAt(0, 1, 4, 0), TimeAt(0, 1, 5, 0)})}

InitFair ==
    /\ closure \in Closures
    /\ dom \in FairDoms(closure)
    /\ csvFile \in FairFiles
    /\ fullData = << >>
    /\ simulationResults = << >>
    /\ isSimulating = FALSE
    /\ calculateBtnDisabled = FALSE
    /\ status = ""
    /\ optimizationChartInstance = << >>
    /\ pc = "idle"
    /\ frame = NoFrame
    /\ stepCall = NoCall

SpecFair == InitFair /\ [][Next]_vars /\ WF_pc(HandlerResumes)

(***************************************************************************)
(* A direct call of runSingleTimeStep, as runSimulation makes it at line   *)
(* 2336: the battery level is anywhere between the two limits.             *)
(***************************************************************************)
\* force charging from 01:00 to 02:00 and from 05:00 to 06:00
Mask1And5 == [h \in 0..23 |-> h \in {1, 5}]

StepDoms(c) ==
    {DomOf(s, m, e, 1, lim[1], lim[2], r, mic, mec) :
        s \in StrategiesOf(c), m \in {NoMask, Mask1And5}, e \in {100, 25},
        lim \in {<<10, 100>>, <<20, 80>>}, r \in {5000, 400},
        mic \in {12000, 1000, 600}, mec \in {6000, 2000, 0}}

\* the instants of the calls: those of the datasets and 21:00, four hours
\* before the flagged hour 1 of the next day
StepInstants == Instants \cup {TimeAt(5, 1, 21, 0)}

\* battery levels between the limits, 0.2 kWh apart
SocLevels(params) ==
    {minSoCOf(params), maxSoCOf(params)}
    \cup {x \in {minSoCOf(params) + k * (KWH \div 5) : k \in 1..SocSteps} : x <= maxSoCOf(params)}

StepCalls(params) ==
    {[phase |-> "called", row |-> Reading(t, cg), currentSoC |-> soc,
      params |-> params, flag |-> f] :
        t \in StepInstants, cg \in Energies, soc \in SocLevels(params), f \in BOOLEAN}

InitStep ==
    /\ closure \in Closures
    /\ dom \in StepDoms(closure)
    /\ stepCall \in StepCalls(getSimulationParameters(dom))
    /\ csvFile = [kind |-> "none", rows |-> << >>]
    /\ fullData = << >>
    /\ simulationResults = << >>
    /\ isSimulating = FALSE
    /\ calculateBtnDisabled = FALSE
    /\ status = ""
    /\ optimizationChartInstance = << >>
    /\ pc = "idle"
    /\ frame = NoFrame

\* the call returns
ApplyStep ==
    /\ stepCall.phase = "called"
    /\ stepCall' =
           [phase |-> "returned", row |-> stepCall.row, currentSoC |-> stepCall.currentSoC,
            params |-> stepCall.params, flag |-> stepCall.flag,
            result |-> StepOf(closure, stepCall.row, stepCall.currentSoC, stepCall.params,
                              minSoCOf(stepCall.params), maxSoCOf(stepCall.params),
                              MathSqrt(stepCall.params.roundtripEfficiency), stepCall.flag)]
    /\ UNCHANGED <<closure, dom, csvFile, fullData, simulationResults, isSimulating,
                   calculateBtnDisabled, status, optimizationChartInstance, pc, frame>>

NextStep == ApplyStep

SpecStep == InitStep /\ [][NextStep]_vars

(***************************************************************************)
(* One call of runSimulation with its yields to the browser.  The loop     *)
(* updates the status and yields before reading number i (from 0) whenever *)
(* i > 0 and i is a multiple of 1000 (lines 2313-2316); ProgressEvery is   *)
(* that period, scaled down to the size of the datasets.  The call is      *)
(* suspended at a yield (pc = "loop") or has returned; at a yield the      *)
(* browser delivers input events.  frame holds the locals of the call: i   *)
(* counts the readings processed, st is SimStart and what the loop made of *)
(* it.                                                                     *)
(***************************************************************************)
ProgressEvery == 1

\* Math.round((i / data.length) * 100) for 0 < i < n
ProgressPercent(i, n) == (200 * i + n) \div (2 * n)

\* line 2314
ProgressStatus(params, i, n) ==
    "Running " \o params.strategy \o " simulation... (" \o ToString(ProgressPercent(i, n)) \o "%)"

\* a faulty read of the parameters: the fields of the page as they are now
ParamsFromPage(params, d) == [getSimulationParameters(d) EXCEPT !.strategy = params.strategy]

\* the parameters the loop works with after a yield: the params object of
\* the call (line 2295), never the fields of the page d
ParamsRead(params, d) == params

\* the number of readings processed when the loop yields next, or ends
SliceEnd(i, n) == Min(i + ProgressEvery, n)

\* the locals after the iterations for the readings from + 1 .. to
RECURSIVE SimSlice(_, _, _, _, _, _)
SimSlice(c, st, data, from, to, params) ==
    IF to <= from THEN st
    ELSE SimIteration(c, SimSlice(c, st, data, from, to - 1, params), data, to, params)

\* runSimulation called with a strategy value that names none of the four
\* strategies of revision 2.5.0
ForecastDoms ==
    {DomOf("historical-forecast", Mask5, e, 1, 10, 100, 5000, 12000, 6000) : e \in {100, 25}}

\* a charge rate of 0.4 kW: one interval of force charging does not fill
\* the battery
SlowChargeDoms ==
    {DomOf("export-maximiser", Mask5, 100, 1, 10, 100, 400, 12000, 6000)}

\* the fields behind the params of the call
RunDoms(c) ==
    IF c = "v200"
    THEN Doms(c) \cup SlowChargeDoms
    ELSE Doms(c) \cup SlowChargeDoms \cup ForecastDoms

\* the instants of the data of the call: those of the datasets and 04:00 on
\* the second of January, so that readings lie a day apart as well as
\* months apart
RunInstants == Instants \cup {TimeAt(0, 2, 4, 0)}

RunDatasets == DatasetsOver(RunInstants)

InitRun ==
    /\ closure \in Closures
    /\ dom \in RunDoms(closure)
    /\ csvFile = [kind |-> "none", rows |-> << >>]
    /\ fullData \in RunDatasets
    /\ simulationResults = << >>
    /\ isSimulating = TRUE
    /\ calculateBtnDisabled = TRUE
    /\ status = "Running simulation..."
    /\ optimizationChartInstance = << >>
    /\ pc = "loop"
    /\ frame = [params |-> getSimulationParameters(dom),
                i |-> 0,
                st |-> SimStart(getSimulationParameters(dom)),
                result |-> << >>]
    /\ stepCall = NoCall

\* the loop stops before reading number `to`: progress update and yield
YieldAt(st, to) ==
    /\ frame' = [frame EXCEPT !.i = to, !.st = st]
    /\ status' = ProgressStatus(frame.params, to, Len(fullData))
    /\ pc' = "loop"

\* the loop is over: aggregateFinalResults and return (line 2374)
ReturnWith(st, to, params) ==
    /\ frame' = [frame EXCEPT !.i = to, !.st = st,
                              !.result = ReturnOf(st, Len(fullData), params)]
    /\ pc' = "returned"
    /\ UNCHANGED status

SliceDone(st, to, params) ==
    IF to < Len(fullData) THEN YieldAt(st, to) ELSE ReturnWith(st, to, params)

\* the iterations from the start of the call, or from a yield, to the next
\* yield or to the end of the loop
RunSlice ==
    /\ pc = "loop"
    /\ SliceDone(SimSlice(closure, frame.st, fullData, frame.i,
                          SliceEnd(frame.i, Len(fullData)), ParamsRead(frame.params, dom)),
                 SliceEnd(frame.i, Len(fullData)),
                 ParamsRead(frame.params, dom))
    /\ UNCHANGED <<closure, dom, csvFile, fullData, simulationResults, isSimulating,
                   calculateBtnDisabled, optimizationChartInstance, stepCall>>

NextRun ==
    \/ RunSlice
    \/ EditUsableCapacity
    \/ ClickWhileSimulating

SpecRun == InitRun /\ [][NextRun]_vars

(***************************************************************************)
(* Calls of aggregateFinalResults on the monthlyData object a loop of      *)
(* runSimulation has filled.  The function writes the savings field of     *)
(* every month of the object it is given (line 2532), so a later call on   *)
(* the same object starts from what the earlier call left.  frame holds    *)
(* the arguments and the results returned so far.                          *)
(***************************************************************************)
MaxCalls == 2

\* the systemCost field, in euro
SystemCosts == {0 - 1000, 0, 8000}

\* dataLength: that of the data, none, or a full year of half hours
DataLengths(data) == {0, Len(data), DAYS_IN_YEAR * INTERVALS_PER_DAY}

\* the fields of the runs whose months are aggregated
AggregateDoms(c) ==
    {DomOf(s, Mask5, 100, t, 10, 100, 5000, 12000, 6000) : s \in StrategiesOf(c), t \in {1, 2}}

AggregateArguments(st, dataLength, params) ==
    [monthlyData |-> st.monthlyData,
     detailedLog |-> st.detailedLog,
     dataLength |-> dataLength,
     params |-> params,
     results |-> << >>]

InitAggregate ==
    /\ closure \in Closures
    /\ \E d \in AggregateDoms(closure), cost \in SystemCosts :
           dom = [d EXCEPT !.systemCost = cost]
    /\ csvFile = [kind |-> "none", rows |-> << >>]
    /\ fullData \in Datasets
    /\ simulationResults = << >>
    /\ isSimulating = TRUE
    /\ calculateBtnDisabled = TRUE
    /\ status = "Running simulation..."
    /\ optimizationChartInstance = << >>
    /\ pc = "aggregate"
    /\ \E n \in DataLengths(fullData) :
           frame = AggregateArguments(
                       SimLoop(closure, fullData, Len(fullData), getSimulationParameters(dom)),
                       n, getSimulationParameters(dom))
    /\ stepCall = NoCall

\* the call returns r; the months of the object now carry their savings
AggregateReturns(r) ==
    frame' = [frame EXCEPT !.results = Append(@, r), !.monthlyData = r.monthlyData]

Aggregate ==
    /\ pc = "aggregate"
    /\ Len(frame.results) < MaxCalls
    /\ AggregateReturns(aggregateFinalResults(frame.monthlyData, frame.detailedLog,
                                              frame.dataLength, frame.params))
    /\ UNCHANGED <<closure, dom, csvFile, fullData, simulationResults, isSimulating,
                   calculateBtnDisabled, status, optimizationChartInstance, pc, stepCall>>

NextAggregate == Aggregate

SpecAggregate == InitAggregate /\ [][NextAggregate]_vars

(***************************************************************************)
(* Properties of the runs of the click handler (Spec)                      *)
(***************************************************************************)
\* the results of the runs have just been stored in simulationResults
RunsStored == pc = "sweep"

ResultOf(strategy) ==
    CASE strategy = "self-consumption" -> simulationResults.selfConsumption
      [] strategy = "export-maximiser" -> simulationResults.exportMaximiser
      [] strategy = "balanced-export-maximiser" -> simulationResults.balancedExportMaximiser
      [] strategy = "import-minimiser" -> simulationResults.importMinimiser

\* the strategies the closure's handler runs
StrategiesRun == StrategiesOf(closure)

LogOf(strategy) == ResultOf(strategy).detailedLog

\* C1: after every interval of every run, the logged state of charge is at
\* least minSoC_kWh - FLOAT_TOLERANCE.
LowerSoCBound ==
    RunsStored =>
        \A s \in StrategiesRun : \A k \in DOMAIN LogOf(s) :
            LogOf(s)[k].batterySoC >= minSoCOf(frame.params) - FLOAT_TOLERANCE

\* C2: after every interval of every run, the logged state of charge is at
\* most maxSoC_kWh + FLOAT_TOLERANCE.
UpperSoCBound ==
    RunsStored =>
        \A s \in StrategiesRun : \A k \in DOMAIN LogOf(s) :
            LogOf(s)[k].batterySoC <= maxSoCOf(frame.params) + FLOAT_TOLERANCE

ZeroData ==
    /\ Len(fullData) > 0
    /\ \A k \in DOMAIN fullData : fullData[k].consumption = 0 /\ fullData[k].generation = 0

\* a reading of the dataset falls in an hour the mask flags
ForceChargeReading ==
    \E k \in DOMAIN fullData : frame.params.forceChargeHours[getUTCHours(fullData[k].timestamp)]

\* C6 as stated: over a dataset of readings with no consumption and no
\* generation, every strategy's run gives annualSavings = 0,
\* selfSufficiency = 0 and paybackPeriod = Infinity.
ScenarioC_AsStated ==
    (RunsStored /\ ZeroData) =>
        \A s \in StrategiesRun :
            /\ ResultOf(s).annualSavings = 0
            /\ ResultOf(s).selfSufficiency = Zero
            /\ ResultOf(s).paybackPeriod = Infinity

\* C6, amended: over such a dataset every strategy's run gives
\* selfSufficiency = 0; it gives annualSavings = 0 and paybackPeriod =
\* Infinity under self-consumption, and under every strategy when no reading
\* falls in a flagged force-charge hour.
ScenarioC ==
    (RunsStored /\ ZeroData) =>
        \A s \in StrategiesRun :
            /\ ResultOf(s).selfSufficiency = Zero
            /\ (s = "self-consumption" \/ ~ForceChargeReading) =>
                   /\ ResultOf(s).annualSavings = 0
                   /\ ResultOf(s).paybackPeriod = Infinity

\* a zero dataset whose force charge, dumped on the grid months later, earns
\* money under the export maximiser while self-consumption earns nothing
ScenarioCWitness ==
    /\ RunsStored
    /\ ZeroData
    /\ ForceChargeReading
    /\ ResultOf("export-maximiser").annualSavings > 0
    /\ ResultOf("export-maximiser").paybackPeriod # Infinity
    /\ ResultOf("self-consumption").annualSavings = 0

\* C8: with no hour flagged, the export maximiser's run logs, interval by
\* interval, the same gridImport, gridExport, batteryCharge, batteryDischarge
\* and batterySoC as the self-consumption run.
StrategyIndependence ==
    (RunsStored /\ ~hasForceChargeHours(frame.params)) =>
        LogOf("export-maximiser") = LogOf("self-consumption")

\* the sweep of the self-consumption strategy is on the chart
SweepShown ==
    /\ status = "Simulation and analysis complete! Results are shown below."
    /\ closure = "v200" => dom.strategy = "self-consumption"

SelfConsumptionSweep ==
    IF closure = "v200"
    THEN optimizationChartInstance.data
    ELSE optimizationChartInstance.data.selfConsumptionResults

NonDecreasing(q) == \A i, j \in DOMAIN q : i < j => q[i].savings <= q[j].savings

ExportEarnsNothing == \A h \in 0..23 : getSimulationParameters(dom).exportPrices[h] = 0

\* C7 as stated: under self-consumption the annual savings of the sweep are
\* non-decreasing in the battery size.
ScenarioD_AsStated == SweepShown => NonDecreasing(SelfConsumptionSweep)

\* C7, amended: they are non-decreasing in the battery size when every
\* export price is zero.
ScenarioD == (SweepShown /\ ExportEarnsNothing) => NonDecreasing(SelfConsumptionSweep)

\* a sweep with export prices zero in which the 10 kWh battery saves more
\* than the 5 kWh one
ScenarioDWitness ==
    /\ SweepShown
    /\ ExportEarnsNothing
    /\ SelfConsumptionSweep[1].size < SelfConsumptionSweep[2].size
    /\ SelfConsumptionSweep[1].savings < SelfConsumptionSweep[2].savings

\* the parameters of the run of a strategy
ParamsOf(strategy) == [frame.params EXCEPT !.strategy = strategy]

\* the state of charge passed into the dispatch step for interval i
SoCBefore(strategy, i) ==
    IF i = 1 THEN minSoCOf(frame.params) ELSE LogOf(strategy)[i - 1].batterySoC

\* C11: the log of a run over n readings has n entries; entry i carries the
\* timestamp, consumption and generation of reading i, and its batterySoC is
\* what the dispatch step returns for reading i from the batterySoC of entry
\* i - 1 (minSoC_kWh for the first).
LogShape ==
    RunsStored =>
        \A s \in StrategiesRun :
            /\ Len(LogOf(s)) = Len(fullData)
            /\ \A i \in DOMAIN fullData :
                /\ LogOf(s)[i].timestamp = fullData[i].timestamp
                /\ LogOf(s)[i].consumption = fullData[i].consumption
                /\ LogOf(s)[i].generation = fullData[i].generation
                /\ LogOf(s)[i].batterySoC
                       = StepOf(closure, fullData[i], SoCBefore(s, i), ParamsOf(s),
                                minSoCOf(frame.params), maxSoCOf(frame.params),
                                MathSqrt(frame.params.roundtripEfficiency), FALSE).newSoC

\* a run over two readings with different consumption and generation whose
\* state of charge changes in both intervals
LogShapeWitness ==
    /\ RunsStored
    /\ Len(fullData) = 2
    /\ fullData[1].consumption # fullData[1].generation
    /\ LogOf("self-consumption")[1].batterySoC # minSoCOf(frame.params)
    /\ LogOf("self-consumption")[2].batterySoC # LogOf("self-consumption")[1].batterySoC

\* the usable-capacity percentage of the parameters captured at the click
CapturedPercent(params) == (params.usableCapacity * 100) \div (params.batteryCapacity * KWH)

\* C12: the sweep runs every size and strategy with the usable-capacity
\* percentage of the parameters captured when the simulation was started,
\* also when the usableCapacity field is edited while the simulation runs.
SweepKeepsPercentage ==
    [][(pc = "sweep" /\ pc' = "idle") =>
          optimizationChartInstance'.data
              = runOptimizationAnalysis(closure, fullData, frame.params,
                                        CapturedPercent(frame.params))]_vars

ForceChargeStrategies == {"export-maximiser", "balanced-export-maximiser", "import-minimiser"}

\* C14: a click with a force-charge-dependent strategy selected and no hour
\* flagged reports the error and starts nothing: isSimulating stays false,
\* the handler is not suspended (no run follows) and simulationResults is
\* unchanged.
StrategyPrecondition ==
    [][(/\ Click
        /\ dom.strategy \in ForceChargeStrategies
        /\ ~(\E h \in 0..23 : dom.forceCharge[h])) =>
          /\ status' = ForceChargeError(closure, getSimulationParameters(dom))
          /\ isSimulating' = FALSE
          /\ pc' = "idle"
          /\ simulationResults' = simulationResults]_vars

\* the error is on the page for a strategy only revision 2.5.0 validates
StrategyPreconditionWitness ==
    /\ status = ForceChargeError(closure, getSimulationParameters(dom))
    /\ dom.strategy \in {"balanced-export-maximiser", "import-minimiser"}
    /\ ~isSimulating
    /\ pc = "idle"

\* the handler is at or past its first runSimulation call
RunPoints == {"runSC", "runEM", "runBEM", "runIM", "sweep"}

\* C15: with the minimum state of charge above the maximum, or with no
\* reading, no runSimulation call is made.
ConfigurationRejected ==
    pc \in RunPoints =>
        /\ frame.params.minSoc <= frame.params.maxSoc
        /\ Len(fullData) > 0

\* C25: isSimulating is true exactly while a call of runFullSimulation is
\* between line 2084 and its finally block, and the button is disabled
\* exactly then; a run is started only by a click made while isSimulating is
\* false; fullData and simulationResults are written only by the handler
\* that set the flag; and every started call ends, whether it completes or
\* throws, with isSimulating = false and the button enabled.
OneSimulationAtATime ==
    /\ [](isSimulating <=> pc # "idle")
    /\ [](calculateBtnDisabled <=> isSimulating)
    /\ [][(pc = "idle" /\ pc' # "idle") => (~isSimulating /\ isSimulating')]_vars
    /\ [][(fullData' # fullData \/ simulationResults' # simulationResults) =>
              (isSimulating /\ pc # "idle")]_vars
    /\ (isSimulating ~> (~isSimulating /\ ~calculateBtnDisabled))

\* a call that threw on an unparsable file has ended with the flag cleared
OneSimulationAtATimeWitness ==
    /\ status = "Error: No valid data rows were parsed from the HDF file."
    /\ pc = "idle"
    /\ ~isSimulating
    /\ ~calculateBtnDisabled

(***************************************************************************)
(* Properties of a call of runSimulation with its yields (SpecRun)         *)
(***************************************************************************)
\* C13: the result of a call of runSimulation that made its progress updates
\* and yields, with input events delivered at the yields, is the result of
\* the loop run without any yield over the same data and params: every
\* annual figure, monthly accumulator and log entry is the same.
ResultIndependentOfProgress ==
    pc = "returned" => frame.result = runSimulation(closure, fullData, frame.params)

\* a call that yielded, during which the usableCapacity field was edited, and
\* whose battery took up energy
ResultIndependentOfProgressWitness ==
    /\ pc = "returned"
    /\ Len(fullData) > ProgressEvery
    /\ getSimulationParameters(dom).usableCapacity # frame.params.usableCapacity
    /\ frame.result.detailedLog[1].batterySoC > minSoCOf(frame.params)

\* the state of charge passed into the dispatch step for reading i of the call
RunSoCBefore(i) ==
    IF i = 1 THEN minSoCOf(frame.params) ELSE frame.result.detailedLog[i - 1].batterySoC

\* what the step charges in reading i under a charging-aware strategy
ChargeAsForceCharging(i) ==
    StepOf(closure, fullData[i], RunSoCBefore(i),
           [frame.params EXCEPT !.strategy = "import-minimiser"],
           minSoCOf(frame.params), maxSoCOf(frame.params),
           MathSqrt(frame.params.roundtripEfficiency), FALSE).toBattery

AfterFirstReading == SimLoop(closure, fullData, 1, frame.params)

\* C24: between two consecutive readings whose UTC calendar dates differ
\* (also with readings missing between them) the runner adds one to
\* missedFullCharges of the earlier reading's month if and only if the flag
\* is set and the daily peak is below 0.99 * maxSoC_kWh.  Stated for the
\* runs over two readings.
DayRolloverBookkeeping ==
    (/\ pc = "returned"
     /\ Len(fullData) = 2
     /\ DayOfYear(fullData[1].timestamp) # DayOfYear(fullData[2].timestamp)) =>
        frame.result.monthlyData[MonthKey(fullData[1].timestamp)].missedFullCharges
            = IF /\ AfterFirstReading.forceChargeScheduledToday
                 /\ AfterFirstReading.dailyMaxSoC * 100 < maxSoCOf(frame.params) * 99
              THEN 1 ELSE 0

(***************************************************************************)
(* Properties of aggregateFinalResults (SpecAggregate)                     *)
(***************************************************************************)
\* a rational that is neither negative nor zero (Infinity is positive)
IsPositive(q) ==
    \/ q.num > 0 /\ q.den >= 0
    \/ q.num < 0 /\ q.den < 0

\* C16: paybackPeriod is systemCost / annualSavings exactly when systemCost > 0
\* and annualSavings > 0 and Infinity in every other case; it is never
\* negative and never zero.
PaybackRule ==
    \A k \in DOMAIN frame.results :
        /\ IF frame.params.systemCost > 0 /\ frame.results[k].annualSavings > 0
           THEN frame.results[k].paybackPeriod
                    = [num |-> frame.params.systemCost, den |-> frame.results[k].annualSavings]
           ELSE frame.results[k].paybackPeriod = Infinity
        /\ IsPositive(frame.results[k].paybackPeriod)

\* a finite payback period has been returned
PaybackRuleWitness ==
    /\ Len(frame.results) > 0
    /\ frame.results[1].paybackPeriod.den > 0
    /\ frame.params.systemCost > 0

\* the intervals of a year
IntervalsPerYear == DAYS_IN_YEAR * INTERVALS_PER_DAY

\* annual = sum * 365 / (n / 48), both sides multiplied by n
Scaled(annual, sum, n) == annual * n = sum * IntervalsPerYear

\* C17: with n > 0 intervals each annual figure is the sum over the monthly
\* accumulators times 365 / (n / 48); annualSavings = annualBillBefore -
\* annualBillAfter; for n = 365 * 48 the annual figures are the plain sums.
Annualization ==
    \A k \in DOMAIN frame.results :
        frame.dataLength > 0 =>
            /\ Scaled(frame.results[k].annualSavings,
                      TotalSavings(frame.results[k].monthlyData), frame.dataLength)
            /\ Scaled(frame.results[k].annualBillBefore,
                      TotalBillBefore(frame.results[k].monthlyData), frame.dataLength)
            /\ Scaled(frame.results[k].annualBillAfter,
                      TotalBillAfter(frame.results[k].monthlyData), frame.dataLength)
            /\ Scaled(frame.results[k].annualImportAfter,
                      TotalImportWithBattery(frame.results[k].monthlyData), frame.dataLength)
            /\ Scaled(frame.results[k].annualExportAfter,
                      TotalExportWithBattery(frame.results[k].monthlyData), frame.dataLength)
            /\ frame.results[k].annualSavings
                   = frame.results[k].annualBillBefore - frame.results[k].annualBillAfter
            /\ frame.dataLength = IntervalsPerYear =>
                   /\ frame.results[k].annualSavings = TotalSavings(frame.results[k].monthlyData)
                   /\ frame.results[k].annualImportAfter
                          = TotalImportWithBattery(frame.results[k].monthlyData)

\* figures of two readings scaled to a year, with savings, import and export
AnnualizationWitness ==
    /\ Len(frame.results) > 0
    /\ frame.dataLength = 2
    /\ frame.results[1].annualSavings > 0
    /\ frame.results[1].annualImportAfter > 0
    /\ frame.results[1].annualExportAfter > 0

\* C18: a second call on the monthlyData the first call finalized, with the
\* same dataLength and params, returns the same annual figures and leaves
\* every monthly accumulator, its savings field included, as the first call
\* left it.
AnnualizationIdempotence ==
    \A k \in DOMAIN frame.results :
        k > 1 =>
            /\ frame.results[k] = frame.results[1]
            /\ frame.monthlyData = frame.results[1].monthlyData

\* two calls have returned and a month has savings other than zero
AnnualizationIdempotenceWitness ==
    /\ Len(frame.results) = 2
    /\ \E m \in DOMAIN frame.monthlyData : frame.monthlyData[m].savings # 0
    /\ frame.results[2].annualSavings # 0

(***************************************************************************)
(* Properties of a call of runSingleTimeStep (SpecStep)                    *)
(***************************************************************************)
Returned == stepCall.phase = "returned"

\* efficiencySqrt of the call
EffOf(call) == MathSqrt(call.params.roundtripEfficiency)

\* C3: the returned gridExport / HOURS_PER_INTERVAL is at most mec.
ExportCap ==
    Returned => OverHours(stepCall.result.gridExport) <= stepCall.params.mec

\* a call whose export before step 6 was above the cap, with solar export
ExportCapWitness ==
    /\ Returned
    /\ OverHours(stepCall.result.exportBeforeClip) > stepCall.params.mec
    /\ stepCall.result.gridExport < stepCall.result.exportBeforeClip
    /\ stepCall.params.mec > 0

\* C4 as stated: consumption + toBattery = selfUse + gridImport.
EnergyConservation_AsStated ==
    Returned =>
        stepCall.row.consumption + stepCall.result.toBattery
            = stepCall.result.selfUse + stepCall.result.gridImport

\* C4, amended: consumption, plus the part of toBattery charged from the grid
\* in step 5b, equals selfUse plus gridImport plus the energy the battery
\* delivered to the home in step 2.
EnergyConservation ==
    Returned =>
        stepCall.row.consumption + (stepCall.result.toBattery - stepCall.result.solarCharge)
            = stepCall.result.selfUse + stepCall.result.gridImport
              + stepCall.result.homeDischarge

\* a force-charge hour in which solar and grid both charge the battery and
\* the home uses solar energy, and an hour in which the battery serves the home
EnergyConservationWitness ==
    /\ Returned
    /\ stepCall.result.selfUse > 0
    /\ \/ stepCall.result.solarCharge > 0 /\ stepCall.result.gridCharge > 0
       \/ stepCall.result.homeDischarge > 0

\* C5: newSoC = currentSoC + toBattery * efficiencySqrt - fromBattery, and the
\* energy delivered in steps 2 and 5a is fromBattery * efficiencySqrt.
BatteryAccounting ==
    Returned =>
        /\ stepCall.result.newSoC
               = stepCall.currentSoC + MulEff(stepCall.result.toBattery, EffOf(stepCall))
                 - stepCall.result.fromBattery
        /\ stepCall.result.homeDischarge + stepCall.result.gridDischarge
               = MulEff(stepCall.result.fromBattery, EffOf(stepCall))

\* a lossy battery that serves the home and dumps on the grid in one interval
BatteryAccountingWitness ==
    /\ Returned
    /\ EffOf(stepCall).num < EffOf(stepCall).den
    /\ stepCall.result.homeDischarge > 0
    /\ stepCall.result.gridDischarge > 0

\* the demand left after direct solar use
DemandOf(call) == call.row.consumption - Min(call.row.consumption, call.row.generation)

ScenarioACase ==
    /\ Returned
    /\ stepCall.params.strategy = "self-consumption"
    /\ DemandOf(stepCall) > FLOAT_TOLERANCE
    /\ DemandOf(stepCall)
           <= MulEff(stepCall.currentSoC - minSoCOf(stepCall.params), EffOf(stepCall))
    /\ DemandOf(stepCall) <= TimesHours(stepCall.params.maxDischargeRate)

\* C9: under self-consumption, a demand d above the tolerance that the
\* battery's energy and rate cover gives gridImport = 0,
\* fromBattery = d / efficiencySqrt and gridExport = 0.
ScenarioA ==
    ScenarioACase =>
        /\ stepCall.result.gridImport = 0
        /\ stepCall.result.fromBattery = DivEff(DemandOf(stepCall), EffOf(stepCall))
        /\ stepCall.result.gridExport = 0

\* such a call with a lossy battery, in an hour the mask flags
ScenarioAWitness ==
    /\ ScenarioACase
    /\ EffOf(stepCall).num < EffOf(stepCall).den
    /\ stepCall.params.forceChargeHours[getUTCHours(stepCall.row.timestamp)]

ScenarioBCase ==
    /\ Returned
    /\ stepCall.params.strategy = "import-minimiser"
    /\ stepCall.params.forceChargeHours[getUTCHours(stepCall.row.timestamp)]
    /\ stepCall.row.generation <= stepCall.row.consumption

\* E of Scenario B
ScenarioBCharge(call) ==
    Min(Max(0, TimesHours(Min(call.params.maxChargeRate,
                              call.params.mic - OverHours(DemandOf(call))))),
        DivEff(maxSoCOf(call.params) - call.currentSoC, EffOf(call)))

\* C10: in a force-charge hour under the import minimiser with generation <=
\* consumption, toBattery is E when E is above the tolerance, else 0, and
\* gridImport is the demand plus toBattery.
ScenarioB ==
    ScenarioBCase =>
        /\ stepCall.result.toBattery
               = IF ScenarioBCharge(stepCall) > FLOAT_TOLERANCE THEN ScenarioBCharge(stepCall) ELSE 0
        /\ stepCall.result.gridImport = DemandOf(stepCall) + stepCall.result.toBattery

\* such a call whose charge the Maximum Import Capacity limits
ScenarioBWitness ==
    /\ ScenarioBCase
    /\ DemandOf(stepCall) > 0
    /\ stepCall.result.toBattery > 0
    /\ stepCall.result.toBattery < TimesHours(stepCall.params.maxChargeRate)
    /\ stepCall.result.toBattery
           < DivEff(maxSoCOf(stepCall.params) - stepCall.currentSoC, EffOf(stepCall))

\* a call in a force-charge hour of a strategy that force-charges
ForceChargeHourCase ==
    /\ Returned
    /\ stepCall.params.strategy
           \in {"export-maximiser", "balanced-export-maximiser", "import-minimiser"}
    /\ stepCall.params.forceChargeHours[getUTCHours(stepCall.row.timestamp)]

\* C20: in a force-charge hour the battery is not discharged (fromBattery = 0),
\* its state of charge does not fall (newSoC >= currentSoC), and the grid
\* supplies all the demand solar does not cover, besides the force charge.
NoDischargeWhileForceCharging ==
    ForceChargeHourCase =>
        /\ stepCall.result.fromBattery = 0
        /\ stepCall.result.newSoC >= stepCall.currentSoC
        /\ stepCall.result.gridImport = DemandOf(stepCall) + stepCall.result.gridCharge

\* such a call with demand left after solar and energy in the battery that
\* step 2 would have served it from
NoDischargeWhileForceChargingWitness ==
    /\ ForceChargeHourCase
    /\ DemandOf(stepCall) > FLOAT_TOLERANCE
    /\ stepCall.currentSoC > minSoCOf(stepCall.params) + FLOAT_TOLERANCE
    /\ stepCall.result.gridImport >= DemandOf(stepCall)

\* the UTC hour of the call's reading
HourOf(call) == getUTCHours(call.row.timestamp)

\* the hour is not flagged and one of the four hours after it is
InPreChargeWindow(call) ==
    /\ ~call.params.forceChargeHours[HourOf(call)]
    /\ \E k \in 1..4 : call.params.forceChargeHours[(HourOf(call) + k) % 24]

\* generation - consumption when positive
ExcessOf(call) == Max(0, call.row.generation - call.row.consumption)

\* C21: under the export maximiser and the balanced export maximiser, in an
\* hour that is not flagged while one of the next four hours (modulo 24) is,
\* toBattery = 0 and the whole excess solar goes to gridExport before the
\* clipping; under self-consumption and the import minimiser such an hour is
\* no pre-charge hour: excess solar charges the battery as in any other hour
\* and nothing is discharged to the grid.
PreChargeKeepsSolarOut ==
    (Returned /\ InPreChargeWindow(stepCall)) =>
        IF stepCall.params.strategy \in {"export-maximiser", "balanced-export-maximiser"}
        THEN /\ stepCall.result.toBattery = 0
             /\ stepCall.result.exportBeforeClip
                    = ExcessOf(stepCall) + stepCall.result.gridDischarge
        ELSE /\ stepCall.result.gridDischarge = 0
             /\ stepCall.result.toBattery
                    = IF ExcessOf(stepCall) > 0
                      THEN SolarCharge(ExcessOf(stepCall),
                                       Max(0, maxSoCOf(stepCall.params) - stepCall.currentSoC),
                                       stepCall.params, EffOf(stepCall))
                      ELSE 0

\* a call of revision 2.5.0 at 21:00, four hours before the flagged hour 1 of
\* the next day, with excess solar and space in the battery
PreChargeKeepsSolarOutWitness ==
    /\ Returned
    /\ closure = "v250"
    /\ stepCall.params.strategy = "balanced-export-maximiser"
    /\ InPreChargeWindow(stepCall)
    /\ HourOf(stepCall) = 21
    /\ ExcessOf(stepCall) > 0
    /\ stepCall.currentSoC < maxSoCOf(stepCall.params)
    /\ stepCall.result.toBattery = 0

\* the reading's month is one of Nov, Dec, Jan, Feb
InHeatingSeason(call) == getUTCMonth(call.row.timestamp) \in {10, 11, 0, 1}

\* C22: gridExport exceeds the excess solar only in a pre-charge hour under
\* the export maximiser, or under the balanced export maximiser outside
\* Nov-Feb; under self-consumption, the import minimiser and the balanced
\* export maximiser in Nov-Feb gridExport is at most the excess solar.
BatteryExportOnlyWhereAllowed ==
    Returned =>
        /\ stepCall.result.gridExport > ExcessOf(stepCall) =>
               /\ InPreChargeWindow(stepCall)
               /\ \/ stepCall.params.strategy = "export-maximiser"
                  \/ /\ stepCall.params.strategy = "balanced-export-maximiser"
                     /\ ~InHeatingSeason(stepCall)
        /\ \/ stepCall.params.strategy \in {"self-consumption", "import-minimiser"}
           \/ /\ stepCall.params.strategy = "balanced-export-maximiser"
              /\ InHeatingSeason(stepCall)
           => stepCall.result.gridExport <= ExcessOf(stepCall)

\* the balanced export maximiser dumps battery energy on the grid in June,
\* and in January holds a battery with energy back in a pre-charge hour
BatteryExportOnlyWhereAllowedWitness ==
    /\ Returned
    /\ stepCall.params.strategy = "balanced-export-maximiser"
    /\ InPreChargeWindow(stepCall)
    /\ stepCall.currentSoC > minSoCOf(stepCall.params) + FLOAT_TOLERANCE
    /\ stepCall.params.mec > 0
    /\ IF InHeatingSeason(stepCall)
       THEN stepCall.result.gridExport <= ExcessOf(stepCall)
       ELSE stepCall.result.gridExport > ExcessOf(stepCall)

\* C23 as stated: the flag goes from false to true only in an interval in
\* which grid force charging proceeded (energy above the tolerance was
\* charged and imported).
FlagSetOnlyByCharge_AsStated ==
    (Returned /\ ~stepCall.flag /\ stepCall.result.newForceChargeScheduledToday) =>
        stepCall.result.gridCharge > FLOAT_TOLERANCE

\* the interval is a force-charge hour of the call's strategy
IsForceChargeHourOf(call) ==
    /\ call.params.strategy
           \in {"export-maximiser", "balanced-export-maximiser", "import-minimiser"}
    /\ call.params.forceChargeHours[HourOf(call)]

\* C23: the flag goes from false to true exactly in the intervals that are
\* force-charge hours, whether or not any energy is charged from the grid;
\* a flag that is set stays set, and no other interval changes the flag.
FlagSetByForceChargeHour ==
    Returned =>
        stepCall.result.newForceChargeScheduledToday
            = (stepCall.flag \/ IsForceChargeHourOf(stepCall))

\* a force-charge hour with a full battery: nothing is charged, the flag is set
FlagSetByForceChargeHourWitness ==
    /\ Returned
    /\ ~stepCall.flag
    /\ IsForceChargeHourOf(stepCall)
    /\ stepCall.currentSoC = maxSoCOf(stepCall.params)
    /\ stepCall.result.gridCharge = 0
    /\ stepCall.result.newForceChargeScheduledToday

\* C26: for every strategy and every interval the energy sent to the
\* battery, solar charging of step 4 and grid charging of step 5b together,
\* is at most maxChargeRate * HOURS_PER_INTERVAL.
ChargePowerLimit ==
    Returned => stepCall.result.toBattery <= TimesHours(stepCall.params.maxChargeRate)

\* C27: for every strategy and every interval the usable energy the battery
\* delivers, the discharge for the home of step 2 and the pre-emptive
\* discharge of step 5a together, is at most
\* maxDischargeRate * HOURS_PER_INTERVAL.
DischargePowerLimit ==
    Returned =>
        stepCall.result.homeDischarge + stepCall.result.gridDischarge
            <= TimesHours(stepCall.params.maxDischargeRate)

\* C28: in every force-charge-hour interval, when the home's own import (the
\* consumption solar does not cover) is at most mic * HOURS_PER_INTERVAL,
\* gridImport is at most mic * HOURS_PER_INTERVAL; when the home's own
\* import exceeds it, nothing is charged from the grid and gridImport is the
\* home's own import.
ImportCapacityRespected ==
    (Returned /\ IsForceChargeHourOf(stepCall)) =>
        IF DemandOf(stepCall) <= TimesHours(stepCall.params.mic)
        THEN stepCall.result.gridImport <= TimesHours(stepCall.params.mic)
        ELSE /\ stepCall.result.gridCharge = 0
             /\ stepCall.result.gridImport = DemandOf(stepCall)

\* a force-charge hour in which the home leaves part of the import capacity
\* and the battery takes exactly that part
ImportCapacityRespectedWitness ==
    /\ Returned
    /\ IsForceChargeHourOf(stepCall)
    /\ DemandOf(stepCall) > 0
    /\ DemandOf(stepCall) < TimesHours(stepCall.params.mic)
    /\ stepCall.result.gridCharge > 0
    /\ stepCall.result.gridImport = TimesHours(stepCall.params.mic)

\* the usable energy the battery delivered in the call, fromBattery *
\* efficiencySqrt: what step 2 gave the home and step 5a gave the grid
UsableFromBattery(call) == call.result.homeDischarge + call.result.gridDischarge

\* what enters the interval, and what leaves it
EnergyIn(call) == call.row.generation + call.result.gridImport + UsableFromBattery(call)
EnergyOut(call) == call.row.consumption + call.result.toBattery + call.result.gridExport

\* step 6 reduces the export of the call
ClippingApplies(call) == OverHours(call.result.exportBeforeClip) > call.params.mec

\* C29: for every strategy and every interval, generation + gridImport +
\* fromBattery * efficiencySqrt = consumption + toBattery + gridExport when
\* the clipping of step 6 does not reduce the export; when it does, the left
\* side exceeds the right side by exactly the curtailed energy, the export
\* before the clipping less mec * HOURS_PER_INTERVAL; and gridImport,
\* gridExport, toBattery and fromBattery are >= 0.
FullEnergyBalance ==
    Returned =>
        /\ IF ClippingApplies(stepCall)
           THEN /\ EnergyIn(stepCall) - EnergyOut(stepCall)
                       = stepCall.result.exportBeforeClip - TimesHours(stepCall.params.mec)
                /\ EnergyIn(stepCall) > EnergyOut(stepCall)
           ELSE EnergyIn(stepCall) = EnergyOut(stepCall)
        /\ stepCall.result.gridImport >= 0
        /\ stepCall.result.gridExport >= 0
        /\ stepCall.result.toBattery >= 0
        /\ stepCall.result.fromBattery >= 0

\* a call that stores solar energy, covers the home from solar, and has its
\* export clipped
FullEnergyBalanceWitness ==
    /\ Returned
    /\ ClippingApplies(stepCall)
    /\ stepCall.result.selfUse > 0
    /\ stepCall.result.solarCharge > 0
    /\ stepCall.result.gridExport > 0
    /\ stepCall.result.gridExport < stepCall.result.exportBeforeClip

\* one of the run's readings falls in a force-charge hour of its strategy
HasForceChargeInterval ==
    /\ frame.params.strategy \in ForceChargeStrategies
    /\ \E i \in DOMAIN frame.detailedLog :
           frame.params.forceChargeHours[getUTCHours(frame.detailedLog[i].timestamp)]

\* C30, as stated: for every strategy and every dataset the selfSufficiency
\* aggregateFinalResults returns lies between 0 and 100.
SelfSufficiencyRange_AsStated ==
    \A k \in DOMAIN frame.results :
        /\ frame.results[k].selfSufficiency.den > 0
        /\ frame.results[k].selfSufficiency.num >= 0
        /\ frame.results[k].selfSufficiency.num <= 100 * frame.results[k].selfSufficiency.den

\* C30, amended: the selfSufficiency aggregateFinalResults returns is at most
\* 100 for every strategy and every dataset, and it is at least 0 when no
\* reading of the run falls in a force-charge hour of the strategy (always
\* so under self-consumption).
SelfSufficiencyRange ==
    \A k \in DOMAIN frame.results :
        /\ frame.results[k].selfSufficiency.den > 0
        /\ frame.results[k].selfSufficiency.num <= 100 * frame.results[k].selfSufficiency.den
        /\ ~HasForceChargeInterval => frame.results[k].selfSufficiency.num >= 0

\* a run without a force-charge interval whose battery covered part of the
\* consumption: the selfSufficiency returned is between 0 and 100
SelfSufficiencyRangeWitness ==
    /\ Len(frame.results) > 0
    /\ ~HasForceChargeInterval
    /\ frame.results[1].selfSufficiency.num > 0
    /\ frame.results[1].selfSufficiency.num < 100 * frame.results[1].selfSufficiency.den

====
